---- MODULE Spec2Model ----
(***************************************************************************)
(* Membership core of artillery-core's epidemic protocol:                  *)
(* src/artillery-core/src/epidemic/member.rs.                              *)
(*                                                                         *)
(* Two specifications share the module.                                    *)
(*   Spec       one member record (a membership-table entry) driven by     *)
(*              its operations set_state, reincarnate,                     *)
(*              member_by_changing_host and by reconciliation against      *)
(*              incoming records, under a non-decreasing clock.            *)
(*   SpecMerge  the pure function most_uptodate_member_data applied to     *)
(*              three records of one host drawn from bounded sets.         *)
(***************************************************************************)
EXTENDS Integers, Sequences, FiniteSets, TLC

\* ------------------------------------------------------------------ bounds
\* Width of the incarnation counter in the model (u64 in the source,
\* member.rs:41); arithmetic on it is taken modulo 2^IncBits.
IncBits == 2
\* Last instant of the wall clock the model explores.
MaxTime == 2
\* Longest chrono::Duration passed to state_change_older_than.
MaxDuration == 1

RECURSIVE Pow2(_)
Pow2(n) == IF n = 0 THEN 1 ELSE 2 * Pow2(n - 1)

\* u64::MAX at the model's width.
MaxIncarnation == Pow2(IncBits) - 1
Incarnations == 0 .. MaxIncarnation

\* ------------------------------------------------------------- data model
\* Option<T>
None == <<>>
Some(x) == <<x>>

\* enum ArtilleryMemberState, in declaration order
ArtilleryMemberState == {"Alive", "Suspect", "Down", "Left"}

\* SocketAddr values
SocketAddrs == {[ip |-> <<127, 0, 0, 1>>, port |-> 1337], [ip |-> <<127, 0, 0, 1>>, port |-> 1338]}
\* What a node is constructed from: its host key (Uuid, 16 bytes in the source,
\* 2 here), its labels (Vec<(String, String)>) and its metadata (Vec<u8>).
Identities == {<<<<0, 1>>, <<>>, <<>>>>, <<<<1, 0>>, << <<"label_name", "label_value">> >>, <<109>>>>}
\* The address a peer reports for the host.
PeerAddr == [ip |-> <<127, 0, 0, 1>>, port |-> 1338]

\* struct ArtilleryMember
ArtilleryMember(h, r, i, s, t, l, d) ==
    [host_key |-> h, remote_host |-> r, incarnation_number |-> i,
     member_state |-> s, last_state_change |-> t, labels |-> l, metadata |-> d]

\* ArtilleryMember::new; utc_now is the value Utc::now() returns
new(host_key, remote_host, incarnation_number, known_state, labels, metadata, utc_now) ==
    ArtilleryMember(host_key, Some(remote_host), incarnation_number, known_state,
                    utc_now, labels, metadata)

\* current starting at incarnation 1
current_from_one(host_key, labels, metadata, utc_now) ==
    ArtilleryMember(host_key, None, 1, "Alive", utc_now, labels, metadata)

\* ArtilleryMember::current
current(host_key, labels, metadata, utc_now) ==
    ArtilleryMember(host_key, None, 0, "Alive", utc_now, labels, metadata)

is_remote(self) == self.remote_host # None

is_current(self) == self.remote_host = None

\* state_change_older_than comparing with <=
state_change_older_than_inclusive(self, duration, utc_now) ==
    self.last_state_change + duration <= utc_now

\* ArtilleryMember::state_change_older_than
state_change_older_than(self, duration, utc_now) ==
    self.last_state_change + duration < utc_now

\* set_state stamping the time on every call
set_state_always_stamps(self, state, utc_now) ==
    [self EXCEPT !.member_state = state, !.last_state_change = utc_now]

\* ArtilleryMember::set_state
set_state(self, state, utc_now) ==
    IF self.member_state # state
    THEN [self EXCEPT !.member_state = state, !.last_state_change = utc_now]
    ELSE self

\* member_by_changing_host building the record afresh under the nil Uuid
member_by_changing_host_nil_key(self, remote_host) ==
    [self EXCEPT !.remote_host = Some(remote_host), !.host_key = <<0, 0>>]

\* ArtilleryMember::member_by_changing_host
member_by_changing_host(self, remote_host) ==
    [self EXCEPT !.remote_host = Some(remote_host)]

\* `self.incarnation_number += 1` overflows at u64::MAX
reincarnate_overflows(self) == self.incarnation_number + 1 > MaxIncarnation

\* ArtilleryMember::reincarnate, as it returns when the addition is not
\* overflow-checked (it wraps) or does not overflow
reincarnate(self) ==
    [self EXCEPT !.incarnation_number = (self.incarnation_number + 1) % Pow2(IncBits)]

\* lhs_overrides with the Suspect-against-Alive arm comparing strictly
lhs_overrides_strict(lhs, rhs) ==
    LET ls == lhs.member_state
        i  == lhs.incarnation_number
        rs == rhs.member_state
        j  == rhs.incarnation_number
    IN  CASE ls = "Alive"   /\ rs = "Suspect" -> i > j
          [] ls = "Alive"   /\ rs = "Alive"   -> i > j
          [] ls = "Suspect" /\ rs = "Suspect" -> i > j
          [] ls = "Suspect" /\ rs = "Alive"   -> i > j
          [] ls = "Down"    /\ rs = "Alive"   -> TRUE
          [] ls = "Down"    /\ rs = "Suspect" -> TRUE
          [] ls = "Left"                      -> TRUE
          [] OTHER                            -> FALSE

\* lhs_overrides with the Down arms comparing incarnation numbers
lhs_overrides_down_by_incarnation(lhs, rhs) ==
    LET ls == lhs.member_state
        i  == lhs.incarnation_number
        rs == rhs.member_state
        j  == rhs.incarnation_number
    IN  CASE ls = "Alive"   /\ rs = "Suspect" -> i > j
          [] ls = "Alive"   /\ rs = "Alive"   -> i > j
          [] ls = "Suspect" /\ rs = "Suspect" -> i > j
          [] ls = "Suspect" /\ rs = "Alive"   -> i >= j
          [] ls = "Down"    /\ rs = "Alive"   -> i >= j
          [] ls = "Down"    /\ rs = "Suspect" -> i >= j
          [] ls = "Left"                      -> TRUE
          [] OTHER                            -> FALSE

\* lhs_overrides with the Left arm comparing incarnation numbers
lhs_overrides_left_by_incarnation(lhs, rhs) ==
    LET ls == lhs.member_state
        i  == lhs.incarnation_number
        rs == rhs.member_state
        j  == rhs.incarnation_number
    IN  CASE ls = "Alive"   /\ rs = "Suspect" -> i > j
          [] ls = "Alive"   /\ rs = "Alive"   -> i > j
          [] ls = "Suspect" /\ rs = "Suspect" -> i > j
          [] ls = "Suspect" /\ rs = "Alive"   -> i >= j
          [] ls = "Down"    /\ rs = "Alive"   -> TRUE
          [] ls = "Down"    /\ rs = "Suspect" -> TRUE
          [] ls = "Left"                      -> i >= j
          [] OTHER                            -> FALSE

\* lhs_overrides without the Down-against-Suspect arm
lhs_overrides_no_down_suspect(lhs, rhs) ==
    LET ls == lhs.member_state
        i  == lhs.incarnation_number
        rs == rhs.member_state
        j  == rhs.incarnation_number
    IN  CASE ls = "Alive"   /\ rs = "Suspect" -> i > j
          [] ls = "Alive"   /\ rs = "Alive"   -> i > j
          [] ls = "Suspect" /\ rs = "Suspect" -> i > j
          [] ls = "Suspect" /\ rs = "Alive"   -> i >= j
          [] ls = "Down"    /\ rs = "Alive"   -> TRUE
          [] ls = "Left"                      -> TRUE
          [] OTHER                            -> FALSE

\* lhs_overrides with the Alive-against-Suspect arm comparing with >=
lhs_overrides_alive_tie(lhs, rhs) ==
    LET ls == lhs.member_state
        i  == lhs.incarnation_number
        rs == rhs.member_state
        j  == rhs.incarnation_number
    IN  CASE ls = "Alive"   /\ rs = "Suspect" -> i >= j
          [] ls = "Alive"   /\ rs = "Alive"   -> i > j
          [] ls = "Suspect" /\ rs = "Suspect" -> i > j
          [] ls = "Suspect" /\ rs = "Alive"   -> i >= j
          [] ls = "Down"    /\ rs = "Alive"   -> TRUE
          [] ls = "Down"    /\ rs = "Suspect" -> TRUE
          [] ls = "Left"                      -> TRUE
          [] OTHER                            -> FALSE

\* lhs_overrides with an arm letting a newer Alive record override Down
lhs_overrides_alive_revives_down(lhs, rhs) ==
    LET ls == lhs.member_state
        i  == lhs.incarnation_number
        rs == rhs.member_state
        j  == rhs.incarnation_number
    IN  CASE ls = "Alive"   /\ rs = "Suspect" -> i > j
          [] ls = "Alive"   /\ rs = "Alive"   -> i > j
          [] ls = "Alive"   /\ rs = "Down"    -> i > j
          [] ls = "Suspect" /\ rs = "Suspect" -> i > j
          [] ls = "Suspect" /\ rs = "Alive"   -> i >= j
          [] ls = "Down"    /\ rs = "Alive"   -> i >= j
          [] ls = "Down"    /\ rs = "Suspect" -> TRUE
          [] ls = "Left"                      -> TRUE
          [] OTHER                            -> FALSE

\* lhs_overrides with suspicion yielding to any Alive record
lhs_overrides_suspect_yields(lhs, rhs) ==
    LET ls == lhs.member_state
        i  == lhs.incarnation_number
        rs == rhs.member_state
        j  == rhs.incarnation_number
    IN  CASE ls = "Alive"   /\ rs = "Suspect" -> TRUE
          [] ls = "Alive"   /\ rs = "Alive"   -> i > j
          [] ls = "Suspect" /\ rs = "Suspect" -> i > j
          [] ls = "Suspect" /\ rs = "Alive"   -> FALSE
          [] ls = "Down"    /\ rs = "Alive"   -> TRUE
          [] ls = "Down"    /\ rs = "Suspect" -> TRUE
          [] ls = "Left"                      -> TRUE
          [] OTHER                            -> FALSE

\* lhs_overrides breaking the remaining ties by the newer timestamp
lhs_overrides_newer_timestamp(lhs, rhs) ==
    LET ls == lhs.member_state
        i  == lhs.incarnation_number
        rs == rhs.member_state
        j  == rhs.incarnation_number
    IN  CASE ls = "Alive"   /\ rs = "Suspect" -> i > j
          [] ls = "Alive"   /\ rs = "Alive"   -> i > j
          [] ls = "Suspect" /\ rs = "Suspect" -> i > j
          [] ls = "Suspect" /\ rs = "Alive"   -> i >= j
          [] ls = "Down"    /\ rs = "Alive"   -> TRUE
          [] ls = "Down"    /\ rs = "Suspect" -> TRUE
          [] ls = "Left"                      -> TRUE
          [] OTHER -> lhs.last_state_change > rhs.last_state_change

\* the match of most_uptodate_member_data, arm by arm
lhs_overrides(lhs, rhs) ==
    LET ls == lhs.member_state
        i  == lhs.incarnation_number
        rs == rhs.member_state
        j  == rhs.incarnation_number
    IN  CASE ls = "Alive"   /\ rs = "Suspect" -> i > j
          [] ls = "Alive"   /\ rs = "Alive"   -> i > j
          [] ls = "Suspect" /\ rs = "Suspect" -> i > j
          [] ls = "Suspect" /\ rs = "Alive"   -> i >= j
          [] ls = "Down"    /\ rs = "Alive"   -> TRUE
          [] ls = "Down"    /\ rs = "Suspect" -> TRUE
          [] ls = "Left"                      -> TRUE
          [] OTHER                            -> FALSE

most_uptodate_member_data(lhs, rhs) ==
    IF lhs_overrides(lhs, rhs) THEN lhs ELSE rhs

\* std::cmp::Ordering of two integers
CmpInt(m, n) == IF m < n THEN "Less" ELSE IF m > n THEN "Greater" ELSE "Equal"

\* Ord of byte slices and of Strings: lexicographic, a proper prefix is less
RECURSIVE CmpSeq(_, _)
CmpSeq(s, t) ==
    IF s = <<>> /\ t = <<>> THEN "Equal"
    ELSE IF s = <<>> THEN "Less"
    ELSE IF t = <<>> THEN "Greater"
    ELSE IF Head(s) # Head(t) THEN CmpInt(Head(s), Head(t))
    ELSE CmpSeq(Tail(s), Tail(t))

\* the decimal digits of n as character codes
RECURSIVE DecimalText(_)
DecimalText(n) ==
    IF n < 10 THEN <<48 + n>> ELSE DecimalText(n \div 10) \o <<48 + (n % 10)>>

\* Debug of a V4 SocketAddr: "a.b.c.d:port"
SocketAddrText(addr) ==
    DecimalText(addr.ip[1]) \o <<46>> \o DecimalText(addr.ip[2]) \o <<46>>
        \o DecimalText(addr.ip[3]) \o <<46>> \o DecimalText(addr.ip[4])
        \o <<58>> \o DecimalText(addr.port)

\* format!("{:?}", remote_host): "None" or "Some(a.b.c.d:port)"
RemoteHostText(remote_host) ==
    IF remote_host = None THEN <<78, 111, 110, 101>>
    ELSE <<83, 111, 109, 101, 40>> \o SocketAddrText(remote_host[1]) \o <<41>>

\* derived Ord of ArtilleryMemberState: the declaration order
StateRank(s) ==
    CASE s = "Alive" -> 0 [] s = "Suspect" -> 1 [] s = "Down" -> 2 [] s = "Left" -> 3

\* partial_cmp of tuples: the first component that is not Equal decides
Lexicographic(results) ==
    IF \A k \in 1 .. Len(results) : results[k] = "Equal" THEN "Equal"
    ELSE results[CHOOSE k \in 1 .. Len(results) :
                    /\ results[k] # "Equal"
                    /\ \A m \in 1 .. (k - 1) : results[m] = "Equal"]

\* cmp skipping the host key
cmp_without_host_key(self, rhs) ==
    Lexicographic(<<CmpSeq(RemoteHostText(self.remote_host), RemoteHostText(rhs.remote_host)),
                    CmpInt(self.incarnation_number, rhs.incarnation_number),
                    CmpInt(StateRank(self.member_state), StateRank(rhs.member_state))>>)

\* impl PartialOrd / Ord for ArtilleryMember
cmp(self, rhs) ==
    Lexicographic(<<CmpSeq(self.host_key, rhs.host_key),
                    CmpSeq(RemoteHostText(self.remote_host), RemoteHostText(rhs.remote_host)),
                    CmpInt(self.incarnation_number, rhs.incarnation_number),
                    CmpInt(StateRank(self.member_state), StateRank(rhs.member_state))>>)

\* derived PartialEq of ArtilleryMember: every field
eq(self, rhs) ==
    /\ self.host_key = rhs.host_key
    /\ self.remote_host = rhs.remote_host
    /\ self.incarnation_number = rhs.incarnation_number
    /\ self.member_state = rhs.member_state
    /\ self.last_state_change = rhs.last_state_change
    /\ self.labels = rhs.labels
    /\ self.metadata = rhs.metadata

\* ------------------------------------------------------------------ codec
\* The wire form the derived Serialize/Deserialize give under bincode: the
\* fields in declaration order, integers little-endian at their width,
\* byte strings, strings and sequences behind a u64 length, an Option behind
\* a one-byte tag, an enum as its u32 variant index.
RECURSIVE LEBytes(_, _)
LEBytes(n, width) ==
    IF width = 0 THEN <<>> ELSE <<n % 256>> \o LEBytes(n \div 256, width - 1)

RECURSIVE FromLE(_)
FromLE(bytes) ==
    IF bytes = <<>> THEN 0 ELSE Head(bytes) + 256 * FromLE(Tail(bytes))

\* the UTF-8 bytes of the strings that occur in labels
Utf8 ==
    ("label_name" :> <<108, 97, 98, 101, 108, 95, 110, 97, 109, 101>>)
    @@ ("label_value" :> <<108, 97, 98, 101, 108, 95, 118, 97, 108, 117, 101>>)

\* The timestamp travels as text; its instant is written in decimal digits.
TimestampText(t) == DecimalText(t)

RECURSIVE ParseDecimal(_)
ParseDecimal(chars) ==
    IF chars = <<>> THEN 0
    ELSE 10 * ParseDecimal(SubSeq(chars, 1, Len(chars) - 1)) + (chars[Len(chars)] - 48)

EncodeBytes(bytes) == LEBytes(Len(bytes), 8) \o bytes

EncodeState(s) == LEBytes(StateRank(s), 4)

EncodeRemoteHost(r) ==
    IF r = None THEN <<0>>
    ELSE <<1>> \o LEBytes(0, 4) \o r[1].ip \o LEBytes(r[1].port, 2)

RECURSIVE EncodeLabels(_)
EncodeLabels(labels) ==
    IF labels = <<>> THEN <<>>
    ELSE EncodeBytes(Utf8[Head(labels)[1]]) \o EncodeBytes(Utf8[Head(labels)[2]])
            \o EncodeLabels(Tail(labels))

\* encode leaving the timestamp out
encode_skipping_timestamp(self) ==
    EncodeBytes(self.host_key)
        \o EncodeRemoteHost(self.remote_host)
        \o LEBytes(self.incarnation_number, 8)
        \o EncodeState(self.member_state)
        \o LEBytes(Len(self.labels), 8) \o EncodeLabels(self.labels)
        \o EncodeBytes(self.metadata)

\* bincode::serialize(&member)
encode(self) ==
    EncodeBytes(self.host_key)
        \o EncodeRemoteHost(self.remote_host)
        \o LEBytes(self.incarnation_number, 8)
        \o EncodeState(self.member_state)
        \o EncodeBytes(TimestampText(self.last_state_change))
        \o LEBytes(Len(self.labels), 8) \o EncodeLabels(self.labels)
        \o EncodeBytes(self.metadata)

\* width bytes at pos; bytes past the end read as 0 and fail the decode later
Take(w, pos, width) ==
    [k \in 1 .. width |-> IF pos + k - 1 <= Len(w) THEN w[pos + k - 1] ELSE 0]

\* an integer of the given width at pos; -1 when it is beyond any length or
\* value that occurs
ReadInt(w, pos, width) ==
    LET bytes == Take(w, pos, width)
    IN  [val  |-> IF \A k \in 3 .. width : bytes[k] = 0 THEN FromLE(bytes) ELSE -1,
         next |-> pos + width]

\* a length-prefixed byte string at pos
ReadBytes(w, pos) ==
    LET n == ReadInt(w, pos, 8)
        fits == n.val >= 0 /\ n.next + n.val <= Len(w) + 1
    IN  [ok   |-> fits,
         val  |-> IF fits THEN Take(w, n.next, n.val) ELSE <<>>,
         next |-> IF fits THEN n.next + n.val ELSE n.next]

ReadRemoteHost(w, pos) ==
    LET tag == ReadInt(w, pos, 1)
        variant == ReadInt(w, tag.next, 4)
        ip == Take(w, variant.next, 4)
        port == ReadInt(w, variant.next + 4, 2)
    IN  IF tag.val = 0 THEN [ok |-> TRUE, val |-> None, next |-> tag.next]
        ELSE [ok   |-> tag.val = 1 /\ variant.val = 0 /\ port.val >= 0,
              val  |-> Some([ip |-> ip, port |-> port.val]),
              next |-> port.next]

ReadString(w, pos) ==
    LET bytes == ReadBytes(w, pos)
        known == {str \in DOMAIN Utf8 : Utf8[str] = bytes.val}
    IN  [ok   |-> bytes.ok /\ known # {},
         val  |-> IF known # {} THEN CHOOSE str \in known : TRUE ELSE "",
         next |-> bytes.next]

RECURSIVE ReadLabels(_, _, _)
ReadLabels(w, pos, count) ==
    IF count <= 0 THEN [ok |-> count = 0, val |-> <<>>, next |-> pos]
    ELSE LET name == ReadString(w, pos)
             value == ReadString(w, name.next)
             rest == ReadLabels(w, value.next, IF name.ok /\ value.ok THEN count - 1 ELSE 0)
         IN  [ok   |-> name.ok /\ value.ok /\ rest.ok,
              val  |-> << <<name.val, value.val>> >> \o rest.val,
              next |-> rest.next]

\* bincode::deserialize(&encoded): Some(record), or None for a decode error
decode(w) ==
    LET host_key == ReadBytes(w, 1)
        remote_host == ReadRemoteHost(w, host_key.next)
        incarnation == ReadInt(w, remote_host.next, 8)
        state == ReadInt(w, incarnation.next, 4)
        stamp == ReadBytes(w, state.next)
        count == ReadInt(w, stamp.next, 8)
        labels == ReadLabels(w, count.next, IF count.val <= Len(w) THEN count.val ELSE -1)
        metadata == ReadBytes(w, labels.next)
        ok == /\ host_key.ok /\ remote_host.ok /\ incarnation.val >= 0
              /\ state.val \in 0 .. 3
              /\ stamp.ok /\ stamp.val # <<>>
              /\ \A k \in 1 .. Len(stamp.val) : stamp.val[k] \in 48 .. 57
              /\ labels.ok /\ metadata.ok
              /\ metadata.next <= Len(w) + 1
    IN  IF ok
        THEN Some(ArtilleryMember(host_key.val, remote_host.val, incarnation.val,
                                  CHOOSE st \in ArtilleryMemberState : StateRank(st) = state.val,
                                  ParseDecimal(stamp.val), labels.val, metadata.val))
        ELSE None

\* ------------------------------------------------------------------ state
VARIABLES
    member,      \* Spec: the member record (one membership-table entry)
    utc,         \* Spec: the wall clock, the value Utc::now() returns
    op,          \* Spec: the last operation applied to member
    prev,        \* Spec: member before the last operation
    arg_state,   \* Spec: Some(state) passed to the last set_state
    arg_host,    \* Spec: Some(addr) passed to the last member_by_changing_host
    incoming,    \* Spec: Some(record) reconciled against member last
    entry_first, \* Spec: the entry was the lhs of the last reconciliation
    returned,    \* Spec: Some(record) the last operation returned
    panicked,    \* Spec: the thread panicked (overflow-checked addition)
    arg_duration, \* Spec: Some(d) passed to the last state_change_older_than
    older,       \* Spec: Some(bool) the last state_change_older_than returned
    a, b, c,     \* SpecMerge: three records of one host; SpecOrder: any three
    r_ab,        \* SpecMerge: Some(most_uptodate_member_data(a, b))
    side_ab,     \* SpecMerge: which argument that call returned
    r_ba,        \* SpecMerge: Some(most_uptodate_member_data(b, a))
    r_ab_c,      \* SpecMerge: Some(most_uptodate_member_data(r_ab, c))
    r_bc,        \* SpecMerge: Some(most_uptodate_member_data(b, c))
    r_a_bc,      \* SpecMerge: Some(most_uptodate_member_data(a, r_bc))
    cmp_aa,      \* SpecOrder: Some(a.cmp(a))
    cmp_ab,      \* SpecOrder: Some(a.cmp(b))
    cmp_ba,      \* SpecOrder: Some(b.cmp(a))
    cmp_bc,      \* SpecOrder: Some(b.cmp(c))
    cmp_ac,      \* SpecOrder: Some(a.cmp(c))
    eq_ab,       \* SpecOrder: Some(a == b)
    d2,          \* SpecPure: a fourth record
    r_cd,        \* SpecPure: Some(most_uptodate_member_data(c, d2))
    side_cd,     \* SpecPure: which argument that call returned
    view,        \* SpecGossip: view[n] is node n's record of the host
    chan,        \* SpecGossip: chan[<<n, m>>] is Some(record) in flight from n to m
    encoded,     \* SpecCodec: Some(bytes) bincode::serialize returned for a
    decoded      \* SpecCodec: Some(result) bincode::deserialize returned

memberVars == <<member, utc, op, prev, arg_state, arg_host, incoming, entry_first,
                returned, panicked, arg_duration, older>>
mergeVars == <<a, b, c, r_ab, side_ab, r_ba, r_ab_c, r_bc, r_a_bc>>
\* what the actions of Spec leave alone, and what those of SpecMerge do
orderVars == <<cmp_aa, cmp_ab, cmp_ba, cmp_bc, cmp_ac, eq_ab>>
pureVars == <<d2, r_cd, side_cd>>
gossipVars == <<view, chan, encoded, decoded>>
outsideMember == <<mergeVars, orderVars, pureVars, gossipVars>>
outsideMerge == <<memberVars, orderVars, pureVars, gossipVars>>
vars == <<memberVars, mergeVars, orderVars, pureVars, gossipVars>>

\* ------------------------------------------------------------------- Spec
\* No comparison has been made.
OrderIdle ==
    /\ cmp_aa = None /\ cmp_ab = None /\ cmp_ba = None
    /\ cmp_bc = None /\ cmp_ac = None /\ eq_ab = None

\* No second pair is reconciled, no cluster runs.
PureIdle ==
    /\ d2 = None /\ r_cd = None /\ side_cd = "none"
    /\ view = None /\ chan = None /\ encoded = None /\ decoded = None

\* The merge harness is idle in Spec.
MergeIdle ==
    /\ a = None /\ b = None /\ c = None
    /\ r_ab = None /\ side_ab = "none" /\ r_ba = None
    /\ r_ab_c = None /\ r_bc = None /\ r_a_bc = None

\* The state after construction, by either constructor, at time 0.
Init ==
    /\ utc = 0
    /\ \E id \in Identities :
          \/ member = current(id[1], id[2], id[3], utc)
          \/ \E r \in SocketAddrs, i \in Incarnations, s \in ArtilleryMemberState :
                member = new(id[1], r, i, s, id[2], id[3], utc)
    /\ op = "construct"
    /\ prev = None
    /\ arg_state = None /\ arg_host = None /\ incoming = None
    /\ entry_first = TRUE
    /\ returned = None
    /\ panicked = FALSE
    /\ arg_duration = None /\ older = None
    /\ MergeIdle
    /\ OrderIdle
    /\ PureIdle

\* Utc::now() is non-decreasing.
Tick ==
    /\ ~panicked
    /\ utc < MaxTime
    /\ utc' = utc + 1
    /\ op' = "tick"
    /\ arg_duration' = None /\ older' = None
    /\ prev' = None /\ arg_state' = None /\ arg_host' = None /\ incoming' = None
    /\ returned' = None
    /\ UNCHANGED <<member, entry_first, panicked>>
    /\ UNCHANGED outsideMember

SetState(state) ==
    /\ ~panicked
    /\ member' = set_state(member, state, utc)
    /\ op' = "set_state"
    /\ arg_duration' = None /\ older' = None
    /\ prev' = Some(member)
    /\ arg_state' = Some(state)
    /\ arg_host' = None /\ incoming' = None /\ returned' = None
    /\ UNCHANGED <<utc, entry_first, panicked>>
    /\ UNCHANGED outsideMember

\* At u64::MAX the addition panics in a build with overflow checks and wraps
\* in a build without: both outcomes are possible.
Reincarnate ==
    /\ ~panicked
    /\ \/ /\ member' = reincarnate(member)
          /\ panicked' = FALSE
       \/ /\ reincarnate_overflows(member)
          /\ member' = member
          /\ panicked' = TRUE
    /\ op' = "reincarnate"
    /\ arg_duration' = None /\ older' = None
    /\ prev' = Some(member)
    /\ arg_state' = None /\ arg_host' = None /\ incoming' = None /\ returned' = None
    /\ UNCHANGED <<utc, entry_first>>
    /\ UNCHANGED outsideMember

\* Returns a new record; self is borrowed immutably.
MemberByChangingHost(remote_host) ==
    /\ ~panicked
    /\ returned' = Some(member_by_changing_host(member, remote_host))
    /\ op' = "member_by_changing_host"
    /\ arg_duration' = None /\ older' = None
    /\ prev' = Some(member)
    /\ arg_host' = Some(remote_host)
    /\ arg_state' = None /\ incoming' = None
    /\ UNCHANGED <<member, utc, entry_first, panicked>>
    /\ UNCHANGED outsideMember

\* chrono::Duration values, a negative one included
Durations == -1 .. MaxDuration

\* &self: the record is only read.
StateChangeOlderThan(duration) ==
    /\ ~panicked
    /\ older' = Some(state_change_older_than(member, duration, utc))
    /\ arg_duration' = Some(duration)
    /\ op' = "state_change_older_than"
    /\ prev' = Some(member)
    /\ arg_state' = None /\ arg_host' = None /\ incoming' = None /\ returned' = None
    /\ UNCHANGED <<member, utc, entry_first, panicked>>
    /\ UNCHANGED outsideMember

\* A record a peer holds for the same host, as it arrives.
IncomingRecords ==
    {new(member.host_key, PeerAddr, i, s, member.labels, member.metadata, utc) :
        i \in Incarnations, s \in ArtilleryMemberState}

\* The membership entry is replaced by the reconciliation winner.
Reconcile(rec, first) ==
    /\ ~panicked
    /\ member' = IF first THEN most_uptodate_member_data(member, rec)
                          ELSE most_uptodate_member_data(rec, member)
    /\ returned' = Some(member')
    /\ op' = "reconcile"
    /\ arg_duration' = None /\ older' = None
    /\ prev' = Some(member)
    /\ incoming' = Some(rec)
    /\ entry_first' = first
    /\ arg_state' = None /\ arg_host' = None
    /\ UNCHANGED <<utc, panicked>>
    /\ UNCHANGED outsideMember

Next ==
    \/ Tick
    \/ \E s \in ArtilleryMemberState : SetState(s)
    \/ Reincarnate
    \/ \E r \in SocketAddrs : MemberByChangingHost(r)
    \/ \E d \in Durations : StateChangeOlderThan(d)
    \/ \E rec \in IncomingRecords, first \in BOOLEAN : Reconcile(rec, first)

Spec == Init /\ [][Next]_vars

\* -------------------------------------------------------------- SpecMerge
\* The member record is idle in SpecMerge.
MemberIdle ==
    /\ member = None /\ utc = 0 /\ op = "idle" /\ prev = None
    /\ arg_state = None /\ arg_host = None /\ incoming = None
    /\ entry_first = TRUE /\ returned = None /\ panicked = FALSE
    /\ arg_duration = None /\ older = None

\* Three records of one host, as three peers constructed them.
MergeInputs(utc_now) ==
    {new(<<0, 1>>, r, i, s, <<>>, <<109>>, utc_now) :
        r \in {PeerAddr}, i \in Incarnations, s \in ArtilleryMemberState}

InitMerge ==
    /\ MemberIdle
    /\ \E x \in MergeInputs(0), y \in MergeInputs(1), z \in MergeInputs(2) :
          a = Some(x) /\ b = Some(y) /\ c = Some(z)
    /\ r_ab = None /\ side_ab = "none" /\ r_ba = None
    /\ r_ab_c = None /\ r_bc = None /\ r_a_bc = None
    /\ OrderIdle
    /\ PureIdle

\* most_uptodate_member_data(a, b)
CallAB ==
    /\ r_ab = None
    /\ r_ab' = Some(most_uptodate_member_data(a[1], b[1]))
    /\ side_ab' = IF lhs_overrides(a[1], b[1]) THEN "lhs" ELSE "rhs"
    /\ UNCHANGED <<a, b, c, r_ba, r_ab_c, r_bc, r_a_bc>>
    /\ UNCHANGED outsideMerge

\* most_uptodate_member_data(b, a)
CallBA ==
    /\ r_ba = None
    /\ r_ba' = Some(most_uptodate_member_data(b[1], a[1]))
    /\ UNCHANGED <<a, b, c, r_ab, side_ab, r_ab_c, r_bc, r_a_bc>>
    /\ UNCHANGED outsideMerge

\* most_uptodate_member_data(most_uptodate_member_data(a, b), c)
CallAB_C ==
    /\ r_ab # None /\ r_ab_c = None
    /\ r_ab_c' = Some(most_uptodate_member_data(r_ab[1], c[1]))
    /\ UNCHANGED <<a, b, c, r_ab, side_ab, r_ba, r_bc, r_a_bc>>
    /\ UNCHANGED outsideMerge

\* most_uptodate_member_data(b, c)
CallBC ==
    /\ r_bc = None
    /\ r_bc' = Some(most_uptodate_member_data(b[1], c[1]))
    /\ UNCHANGED <<a, b, c, r_ab, side_ab, r_ba, r_ab_c, r_a_bc>>
    /\ UNCHANGED outsideMerge

\* most_uptodate_member_data(a, most_uptodate_member_data(b, c))
CallA_BC ==
    /\ r_bc # None /\ r_a_bc = None
    /\ r_a_bc' = Some(most_uptodate_member_data(a[1], r_bc[1]))
    /\ UNCHANGED <<a, b, c, r_ab, side_ab, r_ba, r_ab_c, r_bc>>
    /\ UNCHANGED outsideMerge

NextMerge == CallAB \/ CallBA \/ CallAB_C \/ CallBC \/ CallA_BC

SpecMerge == InitMerge /\ [][NextMerge]_vars

\* -------------------------------------------------------------- SpecOrder
\* Records of three hosts: the local one, and remote ones that differ from a
\* base record in one compared or uncompared field each.
OrderRecords ==
    LET k1 == [ip |-> <<127, 0, 0, 1>>, port |-> 1337]
        k2 == [ip |-> <<127, 0, 0, 1>>, port |-> 80]
        l1 == << <<"label_name", "label_value">> >>
    IN  UNION {{current(h, <<>>, <<>>, 0),
                new(h, k1, 0, "Alive", <<>>, <<>>, 0),
                new(h, k2, 0, "Alive", <<>>, <<>>, 0),
                new(h, k1, 1, "Alive", <<>>, <<>>, 0),
                new(h, k1, 0, "Left", <<>>, <<>>, 0),
                new(h, k1, 0, "Alive", <<>>, <<>>, 1),
                new(h, k1, 0, "Alive", l1, <<109>>, 0)} :
               h \in {<<0, 1>>, <<1, 0>>, <<1, 1>>}}

InitOrder ==
    /\ MemberIdle
    /\ \E x \in OrderRecords, y \in OrderRecords, z \in OrderRecords :
          a = Some(x) /\ b = Some(y) /\ c = Some(z)
    /\ r_ab = None /\ side_ab = "none" /\ r_ba = None
    /\ r_ab_c = None /\ r_bc = None /\ r_a_bc = None
    /\ OrderIdle
    /\ PureIdle

\* The calls are made one after the other.
CmpAA ==
    /\ cmp_aa = None
    /\ cmp_aa' = Some(cmp(a[1], a[1]))
    /\ UNCHANGED <<cmp_ab, cmp_ba, cmp_bc, cmp_ac, eq_ab>>
    /\ UNCHANGED <<memberVars, mergeVars, pureVars, gossipVars>>

CmpAB ==
    /\ cmp_aa # None /\ cmp_ab = None
    /\ cmp_ab' = Some(cmp(a[1], b[1]))
    /\ UNCHANGED <<cmp_aa, cmp_ba, cmp_bc, cmp_ac, eq_ab>>
    /\ UNCHANGED <<memberVars, mergeVars, pureVars, gossipVars>>

CmpBA ==
    /\ cmp_ab # None /\ cmp_ba = None
    /\ cmp_ba' = Some(cmp(b[1], a[1]))
    /\ UNCHANGED <<cmp_aa, cmp_ab, cmp_bc, cmp_ac, eq_ab>>
    /\ UNCHANGED <<memberVars, mergeVars, pureVars, gossipVars>>

CmpBC ==
    /\ cmp_ba # None /\ cmp_bc = None
    /\ cmp_bc' = Some(cmp(b[1], c[1]))
    /\ UNCHANGED <<cmp_aa, cmp_ab, cmp_ba, cmp_ac, eq_ab>>
    /\ UNCHANGED <<memberVars, mergeVars, pureVars, gossipVars>>

CmpAC ==
    /\ cmp_bc # None /\ cmp_ac = None
    /\ cmp_ac' = Some(cmp(a[1], c[1]))
    /\ UNCHANGED <<cmp_aa, cmp_ab, cmp_ba, cmp_bc, eq_ab>>
    /\ UNCHANGED <<memberVars, mergeVars, pureVars, gossipVars>>

EqAB ==
    /\ cmp_ac # None /\ eq_ab = None
    /\ eq_ab' = Some(eq(a[1], b[1]))
    /\ UNCHANGED <<cmp_aa, cmp_ab, cmp_ba, cmp_bc, cmp_ac>>
    /\ UNCHANGED <<memberVars, mergeVars, pureVars, gossipVars>>

NextOrder == CmpAA \/ CmpAB \/ CmpBA \/ CmpBC \/ CmpAC \/ EqAB

SpecOrder == InitOrder /\ [][NextOrder]_vars

\* --------------------------------------------------------------- SpecPure
\* Two pairs of records: (a, b) of one host, (c, d) with every field that
\* the match does not read chosen differently.
PureIncarnations == {0, 1}

InitPure ==
    /\ MemberIdle
    /\ OrderIdle
    /\ \E s1 \in ArtilleryMemberState, s2 \in ArtilleryMemberState,
          s3 \in ArtilleryMemberState, s4 \in ArtilleryMemberState,
          i1 \in PureIncarnations, i2 \in PureIncarnations,
          i3 \in PureIncarnations, i4 \in PureIncarnations,
          local \in BOOLEAN :
          /\ a = Some(new(<<0, 1>>, PeerAddr, i1, s1, <<>>, <<>>, 1))
          /\ b = Some(new(<<0, 1>>, PeerAddr, i2, s2, <<>>, <<>>, 0))
          /\ c = Some(IF local
                      THEN ArtilleryMember(<<1, 0>>, None, i3, s3, 0, <<>>, <<109>>)
                      ELSE ArtilleryMember(<<1, 0>>, Some([ip |-> <<127, 0, 0, 1>>, port |-> 80]),
                                           i3, s3, 0, << <<"label_name", "label_value">> >>, <<>>))
          /\ d2 = Some(ArtilleryMember(<<1, 1>>, Some([ip |-> <<127, 0, 0, 1>>, port |-> 1337]),
                                       i4, s4, 2, <<>>, <<109, 101>>))
    /\ r_ab = None /\ side_ab = "none" /\ r_ba = None
    /\ r_ab_c = None /\ r_bc = None /\ r_a_bc = None
    /\ r_cd = None /\ side_cd = "none"
    /\ view = None /\ chan = None /\ encoded = None /\ decoded = None

\* most_uptodate_member_data(c, d2)
CallCD ==
    /\ d2 # None /\ r_cd = None
    /\ r_cd' = Some(most_uptodate_member_data(c[1], d2[1]))
    /\ side_cd' = IF lhs_overrides(c[1], d2[1]) THEN "lhs" ELSE "rhs"
    /\ UNCHANGED <<d2, mergeVars, memberVars, orderVars, gossipVars>>

NextPure == CallAB \/ CallCD

SpecPure == InitPure /\ [][NextPure]_vars

\* ------------------------------------------------------------- SpecGossip
\* A cluster of two nodes, each keeping one record of the same host and
\* sending it to the other; a link carries one record at a time.
Nodes == {1, 2}
Links == {<<1, 2>>, <<2, 1>>}

InitGossip ==
    /\ MemberIdle
    /\ OrderIdle
    /\ a = None /\ b = None /\ c = None /\ d2 = None
    /\ r_ab = None /\ side_ab = "none" /\ r_ba = None
    /\ r_ab_c = None /\ r_bc = None /\ r_a_bc = None
    /\ r_cd = None /\ side_cd = "none"
    /\ view \in [Nodes -> MergeInputs(0)]
    /\ chan = [l \in Links |-> None]
    /\ encoded = None /\ decoded = None

\* Node l[1] sends its current record to node l[2].
Send(l) ==
    /\ chan[l] = None
    /\ chan' = [chan EXCEPT ![l] = Some(view[l[1]])]
    /\ UNCHANGED <<view, encoded, decoded, memberVars, mergeVars, orderVars, pureVars>>

\* Node l[2] receives: entry := most_uptodate_member_data(entry, incoming).
Deliver(l) ==
    /\ chan[l] # None
    /\ view' = [view EXCEPT ![l[2]] = most_uptodate_member_data(view[l[2]], chan[l][1])]
    /\ chan' = [chan EXCEPT ![l] = None]
    /\ UNCHANGED <<encoded, decoded, memberVars, mergeVars, orderVars, pureVars>>

NextGossip == \E l \in Links : Send(l) \/ Deliver(l)

\* Nodes keep sending and every record in flight is delivered.
SpecGossip ==
    /\ InitGossip /\ [][NextGossip]_vars
    /\ \A l \in Links : WF_vars(Send(l)) /\ WF_vars(Deliver(l))

\* -------------------------------------------------------------- SpecCodec
\* Records as either constructor and the record's operations leave them.
CodecRecords ==
    UNION {{ArtilleryMember(id[1], r, i, s, t, id[2], id[3]) :
                r \in {None} \cup {Some(k) : k \in SocketAddrs},
                i \in Incarnations, s \in ArtilleryMemberState, t \in 0 .. MaxTime} :
           id \in Identities}

InitCodec ==
    /\ MemberIdle
    /\ OrderIdle
    /\ \E x \in CodecRecords : a = Some(x)
    /\ b = None /\ c = None /\ d2 = None
    /\ r_ab = None /\ side_ab = "none" /\ r_ba = None
    /\ r_ab_c = None /\ r_bc = None /\ r_a_bc = None
    /\ r_cd = None /\ side_cd = "none"
    /\ view = None /\ chan = None
    /\ encoded = None /\ decoded = None

\* let encoded = bincode::serialize(&member).unwrap();
Encode ==
    /\ encoded = None
    /\ encoded' = Some(encode(a[1]))
    /\ UNCHANGED <<view, chan, decoded, memberVars, mergeVars, orderVars, pureVars>>

\* let decoded: ArtilleryMember = bincode::deserialize(&encoded)
Decode ==
    /\ encoded # None /\ decoded = None
    /\ decoded' = Some(decode(encoded[1]))
    /\ UNCHANGED <<view, chan, encoded, memberVars, mergeVars, orderVars, pureVars>>

NextCodec == Encode \/ Decode

SpecCodec == InitCodec /\ [][NextCodec]_vars

\* ----------------------------------------------------------------- claims
\* C1: most_uptodate_member_data(lhs, rhs) returns lhs exactly when
\* (Alive,Suspect) and i > j, (Alive,Alive) and i > j, (Suspect,Suspect) and
\* i > j, (Suspect,Alive) and i >= j, (Down,Alive), (Down,Suspect), or lhs is
\* Left; in every other case it returns rhs.
C1_Pair(ls, rs) == a[1].member_state = ls /\ b[1].member_state = rs
C1_ClaimedLhs ==
    LET i == a[1].incarnation_number
        j == b[1].incarnation_number
    IN  \/ C1_Pair("Alive", "Suspect") /\ i > j
        \/ C1_Pair("Alive", "Alive") /\ i > j
        \/ C1_Pair("Suspect", "Suspect") /\ i > j
        \/ C1_Pair("Suspect", "Alive") /\ i >= j
        \/ C1_Pair("Down", "Alive")
        \/ C1_Pair("Down", "Suspect")
        \/ a[1].member_state = "Left"
C1_DecisionTable ==
    r_ab # None =>
        /\ C1_ClaimedLhs => side_ab = "lhs" /\ r_ab = a
        /\ ~C1_ClaimedLhs => side_ab = "rhs" /\ r_ab = b
\* (Down,i) against (Down,i): the second argument is returned.
C1_Witness ==
    /\ r_ab # None /\ C1_Pair("Down", "Down")
    /\ a[1].incarnation_number = b[1].incarnation_number
    /\ side_ab = "rhs" /\ r_ab = b

SameView(x, y) ==
    /\ x.member_state = y.member_state
    /\ x.incarnation_number = y.incarnation_number

\* C2: most_uptodate_member_data(a, b) and most_uptodate_member_data(b, a)
\* select the same state and the same incarnation number.
C2_Commutative ==
    (r_ab # None /\ r_ba # None) => SameView(r_ab[1], r_ba[1])

\* C3: most_uptodate_member_data(most_uptodate_member_data(a, b), c) and
\* most_uptodate_member_data(a, most_uptodate_member_data(b, c)) select the
\* same state and incarnation number.
C3_Associative ==
    (r_ab_c # None /\ r_a_bc # None) => SameView(r_ab_c[1], r_a_bc[1])
\* Three different states, the middle record deciding neither grouping alone.
C3_Witness ==
    /\ r_ab_c # None /\ r_a_bc # None
    /\ a[1].member_state = "Suspect" /\ b[1].member_state = "Alive"
    /\ c[1].member_state = "Suspect"
    /\ b[1].incarnation_number > a[1].incarnation_number
    /\ c[1].incarnation_number = b[1].incarnation_number
    /\ r_ab_c = c /\ r_a_bc = c

\* C4: when the entry or the incoming record is Left, in either argument
\* order and for any incarnation numbers, the reconciliation winner is Left;
\* so an entry replaced by the winner stays Left once it is Left.
C4_LeftAbsorbing ==
    op = "reconcile" =>
        ((prev[1].member_state = "Left" \/ incoming[1].member_state = "Left")
            => member.member_state = "Left" /\ returned[1].member_state = "Left")
\* A Left entry reconciled, as the rhs, with a newer Alive record.
C4_Witness ==
    /\ op = "reconcile" /\ ~entry_first
    /\ prev[1].member_state = "Left" /\ incoming[1].member_state = "Alive"
    /\ incoming[1].incarnation_number > prev[1].incarnation_number
    /\ member.member_state = "Left"

\* C5: once a record is Left, no set_state, reincarnate or
\* member_by_changing_host yields a record that is Alive, Suspect or Down.
C5_NoTransitionOutOfLeft ==
    (op \in {"set_state", "reincarnate", "member_by_changing_host"}
        /\ prev[1].member_state = "Left")
    => /\ member.member_state = "Left"
       /\ returned # None => returned[1].member_state = "Left"

\* C6: a Suspect record with incarnation i reconciled with an Alive record
\* with incarnation j, in either order: the Alive record wins iff j > i,
\* otherwise the Suspect record wins.
C6_SuspicionClearedOnlyByNewer ==
    (a[1].member_state = "Suspect" /\ b[1].member_state = "Alive") =>
        LET winner == IF b[1].incarnation_number > a[1].incarnation_number
                      THEN b ELSE a
        IN  /\ r_ab # None => r_ab = winner
            /\ r_ba # None => r_ba = winner
\* Equal incarnations: suspicion stands in both orders.
C6_Witness ==
    /\ a[1].member_state = "Suspect" /\ b[1].member_state = "Alive"
    /\ a[1].incarnation_number = b[1].incarnation_number
    /\ r_ab = a /\ r_ba = a

\* C7: a Down record reconciled with an Alive or Suspect record, in either
\* order and for every pair of incarnation numbers, yields the Down record.
C7_DownBeatsAliveSuspect ==
    (a[1].member_state = "Down" /\ b[1].member_state \in {"Alive", "Suspect"}) =>
        /\ r_ab # None => r_ab = a
        /\ r_ba # None => r_ba = a
\* The Alive record has the strictly greater incarnation and still loses.
C7_Witness ==
    /\ a[1].member_state = "Down" /\ b[1].member_state = "Alive"
    /\ b[1].incarnation_number > a[1].incarnation_number
    /\ r_ab = a /\ r_ba = a

\* C8 as claimed: for a Down entry there is an Alive record with a strictly
\* greater incarnation number that wins reconciliation against it, and a
\* Down entry becomes Alive or Suspect only with a strictly newer
\* incarnation number.
C8_DownRevivedByNewerIncarnation ==
    /\ (member.member_state = "Down" /\ member.incarnation_number < MaxIncarnation) =>
          \E rec \in IncomingRecords :
              /\ rec.member_state = "Alive"
              /\ rec.incarnation_number > member.incarnation_number
              /\ most_uptodate_member_data(member, rec) = rec
    /\ (prev # None /\ prev[1].member_state = "Down"
            /\ member.member_state \in {"Alive", "Suspect"}) =>
          member.incarnation_number > prev[1].incarnation_number

\* C8 as amended: a Down entry becomes Alive or Suspect only by set_state
\* with that state, which keeps its incarnation number; reconciliation, in
\* either argument order, never turns a Down entry Alive or Suspect, not even
\* against a record with a strictly greater incarnation number.
C8_DownLeftOnlyBySetState ==
    (prev # None /\ prev[1].member_state = "Down") =>
        /\ member.member_state \in {"Alive", "Suspect"} =>
              /\ op = "set_state" /\ arg_state = Some(member.member_state)
              /\ member.incarnation_number = prev[1].incarnation_number
        /\ op = "set_state" => member.member_state = arg_state[1]
        /\ op = "reconcile" => member.member_state \in {"Down", "Left"}
\* Down is not terminal: set_state(Alive) revives the entry as it is.
C8_Witness ==
    /\ op = "set_state" /\ prev[1].member_state = "Down"
    /\ member.member_state = "Alive"
    /\ member.incarnation_number = prev[1].incarnation_number
\* A newer Alive record was reconciled against the Down entry and lost.
C8_WitnessReconcile ==
    /\ op = "reconcile" /\ prev[1].member_state = "Down"
    /\ incoming[1].member_state = "Alive"
    /\ incoming[1].incarnation_number > prev[1].incarnation_number
    /\ member = prev[1]

\* C9: set_state(s) with s the current state changes no field; with s
\* different it sets the state to s and last_state_change to the current
\* time, not earlier than before; reincarnate and member_by_changing_host
\* leave last_state_change alone.
C9_TimestampIffStateChanges ==
    /\ op = "set_state" =>
          IF arg_state[1] = prev[1].member_state
          THEN member = prev[1]
          ELSE /\ member = [prev[1] EXCEPT !.member_state = arg_state[1],
                                           !.last_state_change = utc]
               /\ member.last_state_change >= prev[1].last_state_change
    /\ op = "reincarnate" =>
          member.last_state_change = prev[1].last_state_change
    /\ op = "member_by_changing_host" =>
          /\ member.last_state_change = prev[1].last_state_change
          /\ returned[1].last_state_change = prev[1].last_state_change
\* set_state with the current state, after the clock has moved on.
C9_Witness ==
    /\ op = "set_state" /\ arg_state[1] = prev[1].member_state
    /\ utc > member.last_state_change
    /\ member = prev[1]
\* set_state with a different state, after the clock has moved on.
C9_WitnessChange ==
    /\ op = "set_state" /\ arg_state[1] # prev[1].member_state
    /\ member.last_state_change > prev[1].last_state_change

\* C10: after reincarnate the incarnation number is greater by exactly one,
\* for every starting incarnation number including the maximum of the
\* counter, and no other field changes.
C10_ReincarnateStrictlyGreater ==
    op = "reincarnate" =>
        /\ ~panicked
        /\ member.incarnation_number > prev[1].incarnation_number
        /\ member = [prev[1] EXCEPT
                        !.incarnation_number = prev[1].incarnation_number + 1]

RecordOps == {"set_state", "reincarnate", "member_by_changing_host"}

\* C11: over set_state, reincarnate and member_by_changing_host the
\* incarnation number never decreases, and it changes only in a reincarnate
\* step.
C11_IncarnationNeverDecreases ==
    op \in RecordOps =>
        /\ member.incarnation_number >= prev[1].incarnation_number
        /\ op # "reincarnate" =>
              member.incarnation_number = prev[1].incarnation_number
        /\ returned # None =>
              returned[1].incarnation_number = prev[1].incarnation_number

\* C12: the host key never changes under set_state, reincarnate and
\* member_by_changing_host; member_by_changing_host returns a record that
\* differs from the original only in the remote address and leaves the
\* original unchanged.
C12_HostKeyNeverChanges ==
    op \in RecordOps =>
        /\ member.host_key = prev[1].host_key
        /\ op = "member_by_changing_host" =>
              /\ member = prev[1]
              /\ returned[1] = [prev[1] EXCEPT !.remote_host = arg_host]
              /\ returned[1].host_key = prev[1].host_key
\* A current record rebound to an address: same key, new address.
C12_Witness ==
    /\ op = "member_by_changing_host" /\ prev[1].remote_host = None
    /\ returned[1].remote_host = arg_host /\ arg_host # None
    /\ returned[1].host_key = member.host_key
    /\ member.labels # <<>>

\* C13 as claimed: a record built by current() has no remote address, is
\* current, has incarnation 0 and state Alive and stays current under
\* set_state and reincarnate; a record built by new() is remote; exactly one
\* of is_current and is_remote holds; and no record carrying the local
\* node's host key has a remote address.
C13_Shape ==
    /\ is_current(member) # is_remote(member)
    /\ returned # None => is_current(returned[1]) # is_remote(returned[1])
    /\ (op = "construct" /\ is_current(member)) =>
          /\ member.remote_host = None
          /\ member.incarnation_number = 0
          /\ member.member_state = "Alive"
    /\ (op = "construct" /\ ~is_current(member)) =>
          is_remote(member) /\ member.remote_host[1] \in SocketAddrs
    /\ op \in {"set_state", "reincarnate"} =>
          (is_current(member) <=> is_current(prev[1]))
C13_LocalKeyNeverRemote ==
    /\ C13_Shape
    /\ (op \in RecordOps \cup {"reconcile"} /\ is_current(prev[1])) =>
          /\ member.host_key = prev[1].host_key => is_current(member)
          /\ (returned # None /\ returned[1].host_key = prev[1].host_key) =>
                is_current(returned[1])

\* C13 as amended: the last clause is dropped and replaced by what
\* member_by_changing_host does: applied to a current record it returns a
\* record with the same host key that is remote, at the address given, and
\* the original stays current.
C13_CurrentIffNoRemoteHost ==
    /\ C13_Shape
    /\ op = "member_by_changing_host" =>
          /\ is_remote(returned[1]) /\ returned[1].remote_host = arg_host
          /\ returned[1].host_key = prev[1].host_key
          /\ is_current(member) <=> is_current(prev[1])
\* The local node's record rebound: its key now carries a remote address.
C13_Witness ==
    /\ op = "member_by_changing_host"
    /\ is_current(member) /\ member.incarnation_number > 0
    /\ is_remote(returned[1]) /\ returned[1].host_key = member.host_key

\* C20: an entry updated by entry := most_uptodate_member_data(entry,
\* incoming) lowers its state rank only from Suspect to Alive and only for an
\* incoming record with a strictly greater incarnation number; a Down entry
\* stays Down or becomes Left; and between Alive and Suspect records the
\* incarnation number never decreases.
C20_EntryNeverRegresses ==
    (op = "reconcile" /\ entry_first) =>
        LET old == prev[1]
            AS  == {"Alive", "Suspect"}
        IN  /\ member \in {old, incoming[1]}
            /\ StateRank(member.member_state) < StateRank(old.member_state) =>
                  /\ old.member_state = "Suspect" /\ member.member_state = "Alive"
                  /\ member = incoming[1]
                  /\ incoming[1].incarnation_number > old.incarnation_number
            /\ old.member_state = "Down" => member.member_state \in {"Down", "Left"}
            /\ (old.member_state \in AS /\ member.member_state \in AS) =>
                  member.incarnation_number >= old.incarnation_number
\* Suspicion cleared by a newer Alive record.
C20_Witness ==
    /\ op = "reconcile" /\ entry_first
    /\ prev[1].member_state = "Suspect" /\ member.member_state = "Alive"
    /\ member.incarnation_number > prev[1].incarnation_number

\* C19: state_change_older_than(d) is true iff the current time is strictly
\* later than last_state_change + d and does not modify the record; once
\* true for a record it stays true until a set_state with a different state;
\* right after such a call it is false for every d >= 0; a set_state with
\* the current state never turns it from true to false.
C19_Answer ==
    op = "state_change_older_than" =>
        /\ older[1] <=> utc > prev[1].last_state_change + arg_duration[1]
        /\ utc = prev[1].last_state_change + arg_duration[1] => older = Some(FALSE)
        /\ member = prev[1]
C19_FreshAfterChange ==
    (op = "set_state" /\ arg_state[1] # prev[1].member_state) =>
        \A d \in Durations : d >= 0 => ~state_change_older_than(member, d, utc)
C19_StaysOlder ==
    \A d \in Durations :
        (/\ state_change_older_than(member, d, utc)
         /\ op' # "reconcile"
         /\ ~(op' = "set_state" /\ arg_state'[1] # member.member_state))
        => state_change_older_than(member', d, utc')
C19_WitnessSameState ==
    /\ op = "set_state" /\ arg_state[1] = prev[1].member_state
    /\ state_change_older_than(prev[1], 0, utc)
    /\ state_change_older_than(member, 0, utc)

\* C14: over records with distinct host identifiers the comparison is a
\* strict total order: no record is less than itself, less-than is
\* transitive, and of two distinct records exactly one is less than the other.
C14_StrictTotalOrder ==
    (/\ a[1].host_key # b[1].host_key
     /\ b[1].host_key # c[1].host_key
     /\ a[1].host_key # c[1].host_key) =>
        /\ cmp_aa # None => cmp_aa # Some("Less")
        /\ (cmp_ab # None /\ cmp_ba # None) =>
              (cmp_ab = Some("Less")) # (cmp_ba = Some("Less"))
        /\ (cmp_ab = Some("Less") /\ cmp_bc = Some("Less") /\ cmp_ac # None) =>
              cmp_ac = Some("Less")
\* a < b < c decided by the host keys, against the order of the other fields.
C14_Witness ==
    /\ cmp_ab = Some("Less") /\ cmp_bc = Some("Less") /\ cmp_ac = Some("Less")
    /\ a[1].host_key # b[1].host_key /\ b[1].host_key # c[1].host_key
    /\ a[1].member_state = "Left" /\ c[1].member_state = "Alive"
    /\ b[1].incarnation_number > c[1].incarnation_number

\* C15: for records whose remote addresses have distinct text forms when
\* they differ, cmp(a, b) is Equal iff a == b, where == compares all fields.
C15_EqualIffEq ==
    (/\ cmp_ab # None /\ eq_ab # None
     /\ (a[1].remote_host # b[1].remote_host =>
            RemoteHostText(a[1].remote_host) # RemoteHostText(b[1].remote_host)))
    => ((cmp_ab = Some("Equal")) <=> eq_ab[1])

\* C16: two calls whose arguments agree on (lhs.state, lhs.incarnation,
\* rhs.state, rhs.incarnation) and differ in the other fields return the same
\* side; the result is one of the two arguments, unmodified; no argument is
\* changed.
C16_SameSide ==
    /\ (r_ab # None /\ r_cd # None /\ SameView(a[1], c[1]) /\ SameView(b[1], d2[1]))
          => side_ab = side_cd
    /\ r_ab # None => r_ab = (IF side_ab = "lhs" THEN a ELSE b)
    /\ r_cd # None => r_cd = (IF side_cd = "lhs" THEN c ELSE d2)
C16_ArgumentsKept == a' = a /\ b' = b /\ c' = c /\ d2' = d2
C16_PureFunction == []C16_SameSide /\ [][C16_ArgumentsKept]_vars
\* (Down, 1) against (Down, 1) twice, the timestamps in opposite order.
C16_Witness ==
    /\ r_ab # None /\ r_cd # None
    /\ SameView(a[1], c[1]) /\ SameView(b[1], d2[1])
    /\ a[1].member_state = "Down" /\ b[1].member_state = "Down"
    /\ a[1].last_state_change > b[1].last_state_change
    /\ c[1].last_state_change < d2[1].last_state_change
    /\ a[1].host_key # c[1].host_key /\ c[1].remote_host = None
    /\ side_ab = "rhs" /\ side_cd = "rhs"

\* C17: under fair delivery and with no local state changes, all nodes
\* eventually hold the same state and incarnation number for the host and
\* keep it from then on.
C17_ViewsConverge ==
    <>[](\A n \in Nodes, m \in Nodes : SameView(view[n], view[m]))

C18_WitnessRemote ==
    /\ decoded # None /\ decoded[1] = a
    /\ a[1].remote_host # None /\ a[1].labels = <<>> /\ a[1].metadata = <<>>

====
